---- MODULE Spec2Model ----
(***************************************************************************)
(* Logging configuration subsystem of Chat_Web3                            *)
(* (src/config/logging_config.py): tiered configuration loading, project   *)
(* root discovery, log path resolution, handler (re)configuration, the     *)
(* caller-aware logger adapter and the two factory functions.              *)
(*                                                                         *)
(* Paths are sequences of path components; the filesystem root "/" is the  *)
(* empty sequence.  A path string is a record [abs, parts]; the empty      *)
(* string is [abs |-> FALSE, parts |-> <<>>].  Optional arguments are      *)
(* records [some, v]; None is some = FALSE.                                *)
(***************************************************************************)
EXTENDS Integers, Sequences, FiniteSets, TLC

VARIABLES
    config,     \* content of config.yaml: [readable, logging]
    environ,    \* the ENV environment variable: [set, val]
    marked,     \* directories whose listing contains ".projectroot"
    dirs,       \* existing directories
    files,      \* existing regular files
    loggers,    \* logging's registry: name -> [level, handlers, propagate]
    last,       \* what the most recent operation was given and what it did
    pc,         \* per thread: position inside get_logger (concurrent runs)
    locals,     \* per thread: local variables of get_logger/_configure_handlers
    stack       \* the interpreter's frame stack seen by CustomLoggerAdapter.process

vars == <<config, environ, marked, dirs, files, loggers, last, pc, locals, stack>>

(***************************************************************************)
(* Bounds of the model.                                                    *)
(***************************************************************************)
MaxDepth == 2       \* depth of the directory tree
MaxMarks == 2       \* directories carrying the sentinel at once
MaxFrames == 5      \* frames on the call stack

(***************************************************************************)
(* Python values.                                                          *)
(***************************************************************************)
None(dflt) == [some |-> FALSE, v |-> dflt]
Some(x) == [some |-> TRUE, v |-> x]

NoPath == [abs |-> FALSE, parts |-> <<>>]          \* the string ""
AbsPath(p) == [abs |-> TRUE, parts |-> p]
RelPath(p) == [abs |-> FALSE, parts |-> p]

\* bool(s) of a str: non-empty
StrTruthy(s) == s.abs \/ s.parts # <<>>

\* logging's level numbers
NOTSET == 0
DEBUG == 10
INFO == 20
WARNING == 30
ERROR == 40
CRITICAL == 50

\* logging._nameToLevel
NameToLevel(name) ==
    CASE name = "DEBUG" -> DEBUG
      [] name = "INFO" -> INFO
      [] name = "WARNING" -> WARNING
      [] name = "ERROR" -> ERROR
      [] name = "CRITICAL" -> CRITICAL
      [] OTHER -> NOTSET

\* a level as the caller or the YAML file gives it: an int or a level name
IntLevel(n) == [t |-> "int", n |-> n, s |-> ""]
StrLevel(s) == [t |-> "str", n |-> 0, s |-> s]

\* logging._checkLevel, applied by Logger.setLevel and Handler.setLevel
checkLevel(level) == IF level.t = "int" THEN level.n ELSE NameToLevel(level.s)

\* bool(level): a non-empty string or a non-zero int
LevelTruthy(level) == IF level.t = "int" THEN level.n # 0 ELSE level.s # ""

(***************************************************************************)
(* load_config: the tier named by ENV merged over the default tier.        *)
(***************************************************************************)
EmptyDict == <<>>

\* dict.get(key, {})
GetOrEmpty(d, key) == IF key \in DOMAIN d THEN d[key] ELSE EmptyDict

\* the merge with the precedence reversed: the default tier would win
MergeWrong(a, b) ==
    [k \in DOMAIN a \cup DOMAIN b |-> IF k \in DOMAIN a THEN a[k] ELSE b[k]]
\* {**a, **b}: the keys of both, b's value where both have one
Merge(a, b) ==
    [k \in DOMAIN a \cup DOMAIN b |-> IF k \in DOMAIN b THEN b[k] ELSE a[k]]

load_config(file, env_var) ==
    IF ~file.readable
    THEN [status |-> "RuntimeError", value |-> EmptyDict]
    ELSE LET env == IF env_var.set THEN env_var.val ELSE "default"
             logging_config == file.logging
             env_config == GetOrEmpty(logging_config, env)
             default_config == GetOrEmpty(logging_config, "default")
         IN  [status |-> "ok", value |-> Merge(default_config, env_config)]

(***************************************************************************)
(* CustomLoggerAdapter.process.  A frame is what its f_locals.get("self")  *)
(* gives: nothing, or an object with a class, which may be the adapter's   *)
(* class, and with a truth value (object: true; a class with __len__ or    *)
(* __bool__: whatever that returns, or the exception it raises).           *)
(***************************************************************************)
NoSelf == [bound |-> FALSE, cls |-> "", adapter |-> FALSE, truth |-> "false"]
AdapterSelf == [bound |-> TRUE, cls |-> "CustomLoggerAdapter", adapter |-> TRUE, truth |-> "true"]
FooSelf == [bound |-> TRUE, cls |-> "Foo", adapter |-> FALSE, truth |-> "true"]
\* an instance of a container class that is empty: bool(self) is False
EmptyBagSelf == [bound |-> TRUE, cls |-> "Bag", adapter |-> FALSE, truth |-> "false"]
\* an instance whose __bool__ raises, as an array's or a data frame's does
TableSelf == [bound |-> TRUE, cls |-> "Table", adapter |-> FALSE, truth |-> "raises"]
SelfBindings == {NoSelf, AdapterSelf, FooSelf, EmptyBagSelf, TableSelf}

\* for frame_info in inspect.stack()[2:]: the first frame whose self is
\* true and no CustomLoggerAdapter; i counts frames from 1
RECURSIVE ScanFrames(_, _)
ScanFrames(frames, i) ==
    IF i > Len(frames)
    THEN [status |-> "ok", class_name |-> ""]
    ELSE LET local_self == frames[i] IN
         IF ~local_self.bound
         THEN ScanFrames(frames, i + 1)
         ELSE IF local_self.truth = "raises"
         THEN [status |-> "raised", class_name |-> ""]
         ELSE IF local_self.truth = "true" /\ ~local_self.adapter
         THEN [status |-> "ok", class_name |-> local_self.cls]
         ELSE ScanFrames(frames, i + 1)

process(msg, frames) ==
    LET found == ScanFrames(frames, 3) IN
    IF found.status # "ok"
    THEN [status |-> found.status, msg |-> msg]
    ELSE IF found.class_name # ""
         THEN [status |-> "ok", msg |-> found.class_name \o ": " \o msg]
         ELSE [status |-> "ok", msg |-> msg]

(***************************************************************************)
(* The directory tree.                                                     *)
(***************************************************************************)
Names == {"app", "config"}
Root == <<>>
TreeDirs == UNION {[1..n -> Names] : n \in 0..MaxDepth}

\* os.path.dirname / os.path.basename of an absolute path
Dirname(p) == IF p = Root THEN Root ELSE SubSeq(p, 1, Len(p) - 1)
Basename(p) == IF p = Root THEN "" ELSE p[Len(p)]

\* the module's own file, os.path.abspath(__file__)
ModuleFile == <<"app", "config", "logging_config.py">>

\* the directories from p up to the filesystem root, p included
RECURSIVE Ancestors(_)
Ancestors(p) == IF p = Root THEN {Root} ELSE {p} \cup Ancestors(Dirname(p))

(***************************************************************************)
(* _find_project_root                                                      *)
(***************************************************************************)
RECURSIVE WalkUp(_, _)
WalkUp(path, mk) ==
    IF Dirname(path) = path
    THEN [status |-> "ValueError", path |-> Root]
    ELSE IF path \in mk
         THEN [status |-> "ok", path |-> path]
         ELSE WalkUp(Dirname(path), mk)

find_project_root(start_path, mk, fl) ==
    WalkUp(IF start_path \in fl THEN Dirname(start_path) ELSE start_path, mk)

(***************************************************************************)
(* _get_log_file_path: the log file's path, from the configured path or    *)
(* the default <project_root>/logs/<project_name>.log.  Returns the path   *)
(* and the directories existing afterwards.                                *)
(***************************************************************************)
\* os.path.join(a, b) for a relative b
Join(a, b) == a \o b

\* os.path.exists
Exists(p, ds, fl) == p \in ds \/ p \in fl

\* os.makedirs(p, exist_ok=True) below an existing parent
\* (a resolver that leaves the directory uncreated)
MakedirsSkipped(ds, p) == ds
Makedirs(ds, p) == ds \cup {p}

get_log_file_path(config_path, mk, ds, fl) ==
    LET found == find_project_root(ModuleFile, mk, fl) IN
    IF found.status # "ok"
    THEN [status |-> found.status, path |-> NoPath, dirs |-> ds]
    ELSE LET project_root == found.path IN
         IF config_path.some /\ StrTruthy(config_path.v)
         THEN IF config_path.v.abs
              THEN [status |-> "ok", path |-> config_path.v, dirs |-> ds]
              ELSE [status |-> "ok",
                    path |-> AbsPath(Join(project_root, config_path.v.parts)),
                    dirs |-> ds]
         ELSE LET log_directory == Join(project_root, <<"logs">>)
                  project_name == Basename(project_root)
                  log_file_name == project_name \o ".log"
              IN  [status |-> "ok",
                   path |-> AbsPath(Join(log_directory, <<log_file_name>>)),
                   dirs |-> IF Exists(log_directory, ds, fl)
                            THEN ds
                            ELSE Makedirs(ds, log_directory)]

(***************************************************************************)
(* Loggers and handlers.  A handler is an object; `by` tells which call    *)
(* created it ("earlier": a call that has returned).                       *)
(***************************************************************************)
NewLogger(level) == [level |-> level, handlers |-> <<>>, propagate |-> TRUE]

\* logging.StreamHandler(sys.stdout) with its level and formatter
StreamHandler(level, fmt, datefmt, by) ==
    [kind |-> "console", level |-> checkLevel(level), fmt |-> fmt,
     datefmt |-> datefmt, file |-> Root, by |-> by]

\* os.path.abspath of the handler's filename
Cwd == <<"app">>
Abspath(p) == IF p.abs THEN p.parts ELSE Join(Cwd, p.parts)

\* open(filename, "a"): the parent directory must exist, the name must not be
\* a directory
CanOpen(p, ds) ==
    /\ Abspath(p) # Root
    /\ Dirname(Abspath(p)) \in ds
    /\ Abspath(p) \notin ds

\* logging.FileHandler(log_file_path) with its level and formatter
FileHandler(level, fmt, datefmt, p, by) ==
    [kind |-> "file", level |-> checkLevel(level), fmt |-> fmt,
     datefmt |-> datefmt, file |-> Abspath(p), by |-> by]

\* Logger.removeHandler: the handler leaves the list if it is in it
\* (a removal that leaves the handler attached)
removeHandlerSkipped(hs, h) == hs
RECURSIVE removeHandler(_, _)
removeHandler(hs, h) ==
    IF hs = <<>> THEN <<>>
    ELSE IF Head(hs) = h THEN Tail(hs)
         ELSE <<Head(hs)>> \o removeHandler(Tail(hs), h)

\* Logger.addHandler: appended unless already in the list
addHandler(hs, h) ==
    IF \E i \in 1..Len(hs) : hs[i] = h THEN hs ELSE Append(hs, h)

\* for handler in copy: logger.removeHandler(handler)
RECURSIVE RemoveEach(_, _)
RemoveEach(hs, copy) ==
    IF copy = <<>> THEN hs
    ELSE RemoveEach(removeHandler(hs, Head(copy)), Tail(copy))

\* (a configuration that detaches nothing)
DetachNone(hs) == hs
DetachAll(hs) == RemoveEach(hs, hs)

\* for handler in handlers: logger.addHandler(handler)
RECURSIVE AttachAll(_, _)
AttachAll(hs, new) ==
    IF new = <<>> THEN hs
    ELSE AttachAll(addHandler(hs, Head(new)), Tail(new))

\* the handlers list built before the file handler is opened
ConsolePart(log_level, log_to_console, log_format, date_format, by) ==
    IF log_to_console
    THEN <<StreamHandler(log_level, log_format, date_format, by)>>
    ELSE <<>>

\* Logger.setLevel
setLevel(logger, log_level) == [logger EXCEPT !.level = checkLevel(log_level)]

(***************************************************************************)
(* _configure_handlers.  Returns the status, the logger and the files      *)
(* existing afterwards.                                                    *)
(***************************************************************************)
\* what is left attached when opening the file sink raises: the exception
\* leaves before line 94, so nothing built so far is attached
\* (a configuration that attached the console handler before opening the file)
AfterOpenFailureKeepsConsole(detached, built) == AttachAll(detached, built)
AfterOpenFailure(detached, built) == detached

configure_handlers(logger, log_level, log_to_console, log_to_file, log_format, date_format, log_file_path, ds, fl, by) ==
    LET detached == DetachAll(logger.handlers)
        levelled == setLevel([logger EXCEPT !.handlers = detached], log_level)
        console == ConsolePart(log_level, log_to_console, log_format,
                               date_format, by)
    IN  IF log_to_file /\ ~CanOpen(log_file_path, ds)
        THEN [status |-> "OSError",
              logger |-> [levelled EXCEPT
                            !.handlers = AfterOpenFailure(detached, console)],
              files |-> fl]
        ELSE LET handlers ==
                     IF log_to_file
                     THEN Append(console,
                                 FileHandler(log_level, log_format, date_format,
                                             log_file_path, by))
                     ELSE console
             IN  [status |-> "ok",
                  logger |-> [levelled EXCEPT
                                !.handlers = AttachAll(detached, handlers)],
                  files |-> IF log_to_file
                            THEN fl \cup {Abspath(log_file_path)}
                            ELSE fl]

(***************************************************************************)
(* get_logger and initialize_root_logger.  Each returns what the call did: *)
(* the exception it ended with ("ok": it returned), the options it         *)
(* resolved, the logger, the file system and the notices it emitted.       *)
(***************************************************************************)
CfgKeys == {"log_level", "log_to_console", "log_to_file", "log_format", "date_format"}

\* config.get("log_file_path")
ConfigGetPath(cfg) ==
    IF "log_file_path" \in DOMAIN cfg THEN Some(cfg["log_file_path"]) ELSE None(NoPath)

\* if logger.level == logging.DEBUG: logger_adapter.info(...)
\* (a notice emitted at every level, as initialize_root_logger emits its own)
NoticesAlways(level) == 1
Notices(level) == IF level = DEBUG THEN 1 ELSE 0

\* log_file_path = log_file_path or _get_log_file_path(config.get("log_file_path"))
ResolvePath(arg, log_to_file, cfg, mk, ds, fl) ==
    IF arg.some /\ StrTruthy(arg.v)
    THEN [status |-> "ok", path |-> arg.v, dirs |-> ds]
    ELSE get_log_file_path(ConfigGetPath(cfg), mk, ds, fl)

\* lines 148-164 of get_logger: the configuration loaded and every option
\* taken from the argument or else from the configuration
resolve_options(a, cfgfile, env_var, mk, ds, fl) ==
    LET loaded == load_config(cfgfile, env_var)
        cfg == loaded.value
        level_given == a.log_level.some /\ LevelTruthy(a.log_level.v)
        format_given == a.log_format.some /\ a.log_format.v # ""
        datefmt_given == a.date_format.some /\ a.date_format.v # ""
        needed == {k \in CfgKeys :
                     \/ k = "log_level" /\ ~level_given
                     \/ k = "log_to_console" /\ ~a.log_to_console.some
                     \/ k = "log_to_file" /\ ~a.log_to_file.some
                     \/ k = "log_format" /\ ~format_given
                     \/ k = "date_format" /\ ~datefmt_given}
        unresolved == [status |-> loaded.status, file_known |-> FALSE,
                       log_level |-> IntLevel(NOTSET), log_to_console |-> FALSE,
                       log_to_file |-> FALSE, log_format |-> "", date_format |-> "",
                       log_file_path |-> NoPath, dirs |-> ds]
    IN  IF loaded.status # "ok"
        THEN unresolved
        ELSE IF ~(needed \subseteq DOMAIN cfg)
        THEN [unresolved EXCEPT !.status = "KeyError"]
        ELSE
        LET log_to_file == IF a.log_to_file.some THEN a.log_to_file.v
                           ELSE cfg["log_to_file"]
        IN  LET resolved == ResolvePath(a.log_file_path, log_to_file, cfg, mk, ds, fl)
            IN  [status |-> resolved.status,
                 file_known |-> TRUE,
                 log_level |-> IF level_given THEN a.log_level.v ELSE cfg["log_level"],
                 log_to_console |-> IF a.log_to_console.some THEN a.log_to_console.v
                                    ELSE cfg["log_to_console"],
                 log_to_file |-> log_to_file,
                 log_format |-> IF format_given THEN a.log_format.v ELSE cfg["log_format"],
                 date_format |-> IF datefmt_given THEN a.date_format.v ELSE cfg["date_format"],
                 log_file_path |-> resolved.path,
                 dirs |-> resolved.dirs]

\* what a call that got as far as `o` and ended with `status` reports
Report(status, o, notices, logger, fl) ==
    [status |-> status,
     level |-> IF o.file_known THEN checkLevel(o.log_level) ELSE NOTSET,
     console |-> o.log_to_console, file |-> o.log_to_file,
     file_known |-> o.file_known, path |-> o.log_file_path, notices |-> notices,
     logger |-> logger, dirs |-> o.dirs, files |-> fl]

\* lines 177-183 of get_logger
finish_get_logger(logger) == [logger EXCEPT !.propagate = FALSE]

get_logger(logger, a, cfgfile, env_var, mk, ds, fl, by) ==
    LET o == resolve_options(a, cfgfile, env_var, mk, ds, fl) IN
    IF o.status # "ok"
    THEN Report(o.status, o, 0, logger, fl)
    ELSE LET done == configure_handlers(logger, o.log_level, o.log_to_console, o.log_to_file, o.log_format, o.date_format, o.log_file_path, o.dirs, fl, by)
         IN  IF done.status # "ok"
             THEN Report(done.status, o, 0, done.logger, done.files)
             ELSE Report("ok", o, Notices(done.logger.level),
                         finish_get_logger(done.logger), done.files)

\* lines 187-196 of initialize_root_logger
resolve_root_options(cfgfile, env_var, mk, ds, fl) ==
    LET loaded == load_config(cfgfile, env_var)
        cfg == loaded.value
        unresolved == [status |-> loaded.status, file_known |-> FALSE,
                       log_level |-> IntLevel(NOTSET), log_to_console |-> FALSE,
                       log_to_file |-> FALSE, log_format |-> "", date_format |-> "",
                       log_file_path |-> NoPath, dirs |-> ds]
    IN  IF loaded.status # "ok"
        THEN unresolved
        ELSE IF ~(CfgKeys \subseteq DOMAIN cfg)
        THEN [unresolved EXCEPT !.status = "KeyError"]
        ELSE
        \* config.get("log_file_path", _get_log_file_path()): the default is
        \* evaluated whether or not the key is there
        LET first == get_log_file_path(None(NoPath), mk, ds, fl)
            resolved == IF first.status # "ok" THEN first
                        ELSE get_log_file_path(ConfigGetPath(cfg), mk, first.dirs, fl)
        IN  [status |-> resolved.status,
             file_known |-> TRUE,
             log_level |-> cfg["log_level"],
             log_to_console |-> cfg["log_to_console"],
             log_to_file |-> cfg["log_to_file"],
             log_format |-> cfg["log_format"],
             date_format |-> cfg["date_format"],
             log_file_path |-> resolved.path,
             dirs |-> resolved.dirs]

initialize_root_logger(logger, cfgfile, env_var, mk, ds, fl, by) ==
    LET o == resolve_root_options(cfgfile, env_var, mk, ds, fl) IN
    IF o.status # "ok"
    THEN Report(o.status, o, 0, logger, fl)
    ELSE LET done == configure_handlers(logger, o.log_level, o.log_to_console, o.log_to_file, o.log_format, o.date_format, o.log_file_path, o.dirs, fl, by)
         IN  IF done.status # "ok"
             THEN Report(done.status, o, 0, done.logger, done.files)
             ELSE Report("ok", o, 1, done.logger, done.files)

(***************************************************************************)
(* The configuration file and the environment of the serialized runs.      *)
(***************************************************************************)
DefaultTier ==
    [log_level |-> StrLevel("INFO"), log_to_console |-> TRUE, log_to_file |-> FALSE,
     log_format |-> "%(levelname)s %(message)s", date_format |-> "%Y-%m-%d"]

\* overrides the level and logs to a file given relative to the project root
ProdTier ==
    [log_level |-> StrLevel("DEBUG"), log_to_console |-> FALSE, log_to_file |-> TRUE,
     log_file_path |-> RelPath(<<"app.log">>)]

ConfigYaml ==
    [readable |-> TRUE, logging |-> [default |-> DefaultTier, prod |-> ProdTier]]

\* a file whose default tier leaves keys out
SparseYaml ==
    [readable |-> TRUE,
     logging |-> [default |-> [log_level |-> StrLevel("DEBUG"), log_to_console |-> TRUE],
                  prod |-> ProdTier]]

MissingYaml == [readable |-> FALSE, logging |-> EmptyDict]

ConfigFiles == {ConfigYaml, SparseYaml, MissingYaml}

Unset == [set |-> FALSE, val |-> ""]
EnvValues == {Unset, [set |-> TRUE, val |-> "prod"]}

LoggerNames == {"", "x"}          \* "" is the root logger
GetLoggerNames == {"x"}           \* the names get_logger is called with

\* the arguments get_logger is called with; /var does not exist
LevelArgs == {None(IntLevel(NOTSET)), Some(IntLevel(NOTSET)), Some(IntLevel(DEBUG)), Some(IntLevel(WARNING))}
BoolArgs == {None(FALSE), Some(TRUE), Some(FALSE)}
FormatArgs == {None(""), Some("")}
DateArgs == {None("")}
PathArgs == {None(NoPath), Some(AbsPath(<<"app", "app.log">>)), Some(AbsPath(<<"var", "run.log">>))}
GetLoggerArgs ==
    [log_level : LevelArgs, log_to_console : BoolArgs, log_to_file : BoolArgs,
     log_format : FormatArgs, date_format : DateArgs, log_file_path : PathArgs]

\* every handler attached so far was created by a call that has returned
Returned(lgs) ==
    [n \in DOMAIN lgs |->
        [lgs[n] EXCEPT !.handlers =
            [i \in 1..Len(lgs[n].handlers) |-> [lgs[n].handlers[i] EXCEPT !.by = "earlier"]]]]

NoCall ==
    [op |-> "none", name |-> "", level_arg |-> None(IntLevel(NOTSET)), status |-> "ok",
     level |-> NOTSET, console |-> FALSE, file |-> FALSE, file_known |-> FALSE,
     path |-> NoPath, notices |-> 0, had_handlers |-> FALSE, made |-> {}]

\* the record of a call: its outcome and what it found and created
Call(op, name, level_arg, out) ==
    [op |-> op, name |-> name, level_arg |-> level_arg, status |-> out.status, level |-> out.level,
     console |-> out.console, file |-> out.file, file_known |-> out.file_known,
     path |-> out.path, notices |-> out.notices,
     had_handlers |-> loggers[name].handlers # <<>>,
     made |-> (out.dirs \ dirs) \cup (out.files \ files)]

IdleThreads == <<>>
IdleStack == <<>>

Init ==
    /\ config \in ConfigFiles
    /\ environ = Unset
    /\ marked \in {{}, {<<"app">>}}
    /\ dirs = TreeDirs
    /\ files = {ModuleFile}
    /\ loggers = [n \in LoggerNames |-> NewLogger(IF n = "" THEN WARNING ELSE NOTSET)]
    /\ last = NoCall
    /\ pc = IdleThreads
    /\ locals = IdleThreads
    /\ stack = IdleStack

\* the host changes ENV between calls
SetEnv ==
    /\ \E e \in EnvValues \ {environ} : environ' = e
    /\ last' = [NoCall EXCEPT !.op = "setenv"]
    /\ UNCHANGED <<config, marked, dirs, files, loggers, pc, locals, stack>>

GetLogger ==
    \E name \in GetLoggerNames, a \in GetLoggerArgs :
        \E out \in {get_logger(Returned(loggers)[name], a, config, environ, marked, dirs, files, "call")} :
            /\ loggers' = [Returned(loggers) EXCEPT ![name] = out.logger]
            /\ dirs' = out.dirs
            /\ files' = out.files
            /\ last' = Call("get_logger", name, a.log_level, out)
            /\ UNCHANGED <<config, environ, marked, pc, locals, stack>>

InitializeRootLogger ==
    \E out \in {initialize_root_logger(Returned(loggers)[""], config, environ, marked, dirs, files, "call")} :
        /\ loggers' = [Returned(loggers) EXCEPT ![""] = out.logger]
        /\ dirs' = out.dirs
        /\ files' = out.files
        /\ last' = Call("initialize_root_logger", "", None(IntLevel(NOTSET)), out)
        /\ UNCHANGED <<config, environ, marked, pc, locals, stack>>

Next == SetEnv \/ GetLogger \/ InitializeRootLogger

Spec == Init /\ [][Next]_vars

(***************************************************************************)
(* Properties of the serialized runs (Spec).                               *)
(***************************************************************************)
HandlersOfKind(hs, kind) == {i \in 1..Len(hs) : hs[i].kind = kind}

\* C1: after a configuration call that returned, the logger it configured
\* holds exactly the handlers its options imply (a console handler iff
\* log_to_console, a file handler iff log_to_file), every one of them created
\* by that call, and has the level the call resolved; whatever calls came
\* before.
C1_HandlersMatchLastCall ==
    (last.op \in {"get_logger", "initialize_root_logger"} /\ last.status = "ok") =>
        LET lg == loggers[last.name] IN
        /\ Cardinality(HandlersOfKind(lg.handlers, "console")) = (IF last.console THEN 1 ELSE 0)
        /\ Cardinality(HandlersOfKind(lg.handlers, "file")) = (IF last.file THEN 1 ELSE 0)
        /\ Len(lg.handlers) = (IF last.console THEN 1 ELSE 0) + (IF last.file THEN 1 ELSE 0)
        /\ \A i \in 1..Len(lg.handlers) : lg.handlers[i].by = "call"
        /\ lg.level = last.level

\* a call that reconfigured a logger which already had handlers
C1_Witness ==
    /\ last.op = "get_logger" /\ last.status = "ok"
    /\ last.had_handlers /\ last.file /\ ~last.console
    /\ loggers[""].handlers # <<>>

\* C5: a get_logger call whose resolved log_to_file is false does not end in
\* the project-root error and creates no directory and no file.
C5_PathResolvedOnlyForFileLogging ==
    (last.op = "get_logger" /\ last.file_known /\ ~last.file) =>
        (last.status # "ValueError" /\ last.made = {})

\* the level the call is to use: the caller's override (NOTSET counts as none),
\* else the tier ENV names, else the default tier
C6_TierLevel ==
    LET tiers == config.logging
        env == IF environ.set THEN environ.val ELSE "default"
    IN  IF env \in DOMAIN tiers /\ "log_level" \in DOMAIN tiers[env]
        THEN NameToLevel(tiers[env]["log_level"].s)
        ELSE NameToLevel(tiers["default"]["log_level"].s)
C6_ResolvedLevel ==
    IF last.level_arg.some /\ last.level_arg.v.n # NOTSET
    THEN last.level_arg.v.n
    ELSE C6_TierLevel

\* C6: a get_logger call that returned emitted one initialization notice if
\* the resolved level is DEBUG and none if it is INFO, WARNING, ERROR or
\* CRITICAL.
C6_NoticeIffDebug ==
    (last.op = "get_logger" /\ last.status = "ok") =>
        /\ C6_ResolvedLevel = DEBUG => last.notices = 1
        /\ C6_ResolvedLevel \in {INFO, WARNING, ERROR, CRITICAL} => last.notices = 0

\* a DEBUG level that comes from the environment tier, and its notice
C6_Witness ==
    /\ last.op = "get_logger" /\ last.status = "ok"
    /\ ~last.level_arg.some /\ environ.set
    /\ last.level = DEBUG /\ last.notices = 1

\* C10: when opening the file sink fails the call ends in that error and the
\* logger is left without any handler (neither the earlier ones nor the
\* console handler of this call) and at the new level.
C10_FailedOpenLeavesNoHandlers ==
    (last.status = "OSError") =>
        /\ last.file
        /\ loggers[last.name].handlers = <<>>
        /\ loggers[last.name].level = last.level

\* a failed call that asked for a console handler on a logger that had
\* handlers, and changed its level
C10_Witness ==
    /\ last.status = "OSError" /\ last.console /\ last.had_handlers
    /\ last.level = DEBUG

(***************************************************************************)
(* load_config on its own (SpecConfig): every configuration file over two  *)
(* keys and two environment tiers, every value of ENV.                     *)
(***************************************************************************)
C2Keys == {"log_level", "log_to_file"}
TierNames == {"default", "prod", "dev"}

\* the tier holding the keys that `o` gives a value
TierOf(o) == [k \in {k \in C2Keys : o[k].some} |-> o[k].v]
Tiers ==
    {TierOf(o) : o \in [log_level : {None(StrLevel("")), Some(StrLevel("INFO")), Some(StrLevel("DEBUG"))},
                        log_to_file : {None(FALSE), Some(TRUE), Some(FALSE)}]}

\* the logging section holding the tiers that `sel` selects
LoggingOf(sel) == [n \in {n \in TierNames : sel[n].some} |-> sel[n].v]
LoggingSections ==
    {LoggingOf(sel) : sel \in [TierNames -> {None(TierOf([log_level |-> Some(StrLevel("INFO")), log_to_file |-> Some(TRUE)]))}
                                            \cup {Some(t) : t \in Tiers}]}

EnvNames == {"default", "prod", "dev", "qa", ""}

NotLoaded == [op |-> "none", status |-> "ok", value |-> EmptyDict]

InitConfig ==
    /\ config \in {MissingYaml} \cup {[readable |-> TRUE, logging |-> l] : l \in LoggingSections}
    /\ environ \in {Unset} \cup {[set |-> TRUE, val |-> v] : v \in EnvNames}
    /\ last = NotLoaded
    /\ marked = {}
    /\ dirs = {}
    /\ files = {}
    /\ loggers = <<>>
    /\ pc = IdleThreads
    /\ locals = IdleThreads
    /\ stack = IdleStack

LoadConfig ==
    /\ last.op = "none"
    /\ \E r \in {load_config(config, environ)} :
           last' = [op |-> "load_config", status |-> r.status, value |-> r.value]
    /\ UNCHANGED <<config, environ, marked, dirs, files, loggers, pc, locals, stack>>

NextConfig == LoadConfig

SpecConfig == InitConfig /\ [][NextConfig]_vars

\* C2: load_config returns, for each key k, E[k] if ENV names a tier E of the
\* file that has k, else D[k] if the default tier D has k, else no k at all;
\* with ENV unset or naming no tier the result is D.
C2_MergedTiers ==
    (last.op = "load_config" /\ last.status = "ok") =>
        LET tiers == config.logging
            D == IF "default" \in DOMAIN tiers THEN tiers["default"] ELSE EmptyDict
            selected == environ.set /\ environ.val \in DOMAIN tiers
            E == IF selected THEN tiers[environ.val] ELSE EmptyDict
            v == last.value
        IN  /\ \A k \in C2Keys :
                  IF selected /\ k \in DOMAIN E
                  THEN k \in DOMAIN v /\ v[k] = E[k]
                  ELSE IF k \in DOMAIN D
                       THEN k \in DOMAIN v /\ v[k] = D[k]
                       ELSE k \notin DOMAIN v
            /\ DOMAIN v \subseteq C2Keys
            /\ ~selected => DOMAIN v = DOMAIN D /\ \A k \in DOMAIN D : v[k] = D[k]

\* the environment tier overrides one key of the default tier and inherits
\* the other
C2_Witness ==
    /\ last.op = "load_config" /\ last.status = "ok"
    /\ environ.set /\ environ.val = "prod" /\ "prod" \in DOMAIN config.logging
    /\ "default" \in DOMAIN config.logging
    /\ DOMAIN config.logging["prod"] = {"log_level"}
    /\ DOMAIN config.logging["default"] = C2Keys
    /\ config.logging["default"]["log_level"] # config.logging["prod"]["log_level"]
    /\ last.value["log_level"] = config.logging["prod"]["log_level"]

(***************************************************************************)
(* _find_project_root and _get_log_file_path on their own (SpecPath):      *)
(* every placement of up to MaxMarks sentinels in the tree, every start    *)
(* path of the tree, every shape of the configured path, with and without  *)
(* an entry named logs already there.                                      *)
(***************************************************************************)
TreeFiles == {ModuleFile} \cup {Join(d, <<"main.py">>) : d \in TreeDirs}
StartPaths == TreeDirs \cup TreeFiles

ConfigPaths ==
    {None(NoPath), Some(NoPath),
     Some(AbsPath(<<"var", "log", "app.log">>)),
     Some(RelPath(<<"app.log">>)), Some(RelPath(<<"out", "app.log">>))}

\* where an entry named logs may already be
LogsPlaces == {Join(d, <<"logs">>) : d \in Ancestors(Dirname(ModuleFile))}

NoPathCall ==
    [op |-> "none", start |-> Root, config_path |-> None(NoPath), status |-> "ok",
     path |-> NoPath, dirs_before |-> {}]

InitPath ==
    /\ marked \in {m \in SUBSET TreeDirs : Cardinality(m) <= MaxMarks}
    /\ \E l \in SUBSET LogsPlaces, asdir \in BOOLEAN :
          /\ Cardinality(l) <= 1
          /\ (l = {} => asdir)
          /\ dirs = TreeDirs \cup (IF asdir THEN l ELSE {})
          /\ files = TreeFiles \cup (IF asdir THEN {} ELSE l)
    /\ last = NoPathCall
    /\ config = MissingYaml
    /\ environ = Unset
    /\ loggers = <<>>
    /\ pc = IdleThreads
    /\ locals = IdleThreads
    /\ stack = IdleStack

FindProjectRoot ==
    /\ last.op = "none"
    /\ \E start \in StartPaths :
         \E r \in {find_project_root(start, marked, files)} :
           last' = [op |-> "find_project_root", start |-> start,
                    config_path |-> None(NoPath), status |-> r.status,
                    path |-> AbsPath(r.path), dirs_before |-> dirs]
    /\ UNCHANGED <<config, environ, marked, dirs, files, loggers, pc, locals, stack>>

GetLogFilePath ==
    /\ last.op # "find_project_root"
    /\ \E config_path \in ConfigPaths :
         \E r \in {get_log_file_path(config_path, marked, dirs, files)} :
           /\ last' = [op |-> "get_log_file_path", start |-> ModuleFile,
                       config_path |-> config_path, status |-> r.status,
                       path |-> r.path, dirs_before |-> dirs]
           /\ dirs' = r.dirs
    /\ UNCHANGED <<config, environ, marked, files, loggers, pc, locals, stack>>

NextPath == FindProjectRoot \/ GetLogFilePath

SpecPath == InitPath /\ [][NextPath]_vars

\* the directory the search starts in
StartDir(start) == IF start \in files THEN Dirname(start) ELSE start

\* the marked directories among the start directory and its ancestors, the
\* filesystem root included
MarkedAncestors(start) == {d \in Ancestors(StartDir(start)) : d \in marked}

\* C3: _find_project_root returns the nearest directory, among the start
\* directory and all its ancestors up to and including the filesystem root,
\* that contains the sentinel, and raises the project-root error exactly when
\* none of them does.
C3_NearestMarkedAncestor ==
    (last.op = "find_project_root") =>
        LET cands == MarkedAncestors(last.start) IN
        IF cands = {}
        THEN last.status = "ValueError"
        ELSE /\ last.status = "ok"
             /\ last.path.parts \in cands
             /\ \A d \in cands : Len(d) <= Len(last.path.parts)

\* the project root the module's own file lies in, as the code finds it
C4_Root == find_project_root(ModuleFile, marked, files)
C4_Provided == last.config_path.some
C4_NonEmpty == last.config_path.some /\ StrTruthy(last.config_path.v)
C4_DefaultPath ==
    AbsPath(C4_Root.path \o <<"logs", Basename(C4_Root.path) \o ".log">>)

Stacks ==
    {<<AdapterSelf>> \o f : f \in UNION {[1..n -> SelfBindings] : n \in 0..(MaxFrames - 1)}}

NotProcessed == [op |-> "none", status |-> "ok", msg |-> "", out |-> ""]

InitAdapter ==
    /\ stack \in Stacks
    /\ last = NotProcessed
    /\ config = MissingYaml
    /\ environ = Unset
    /\ marked = {}
    /\ dirs = {}
    /\ files = {}
    /\ loggers = <<>>
    /\ pc = IdleThreads
    /\ locals = IdleThreads

Process ==
    /\ last.op = "none"
    /\ \E msg \in {"msg"} :
         \E r \in {process(msg, stack)} :
           last' = [op |-> "process", status |-> r.status, msg |-> msg, out |-> r.msg]
    /\ UNCHANGED <<config, environ, marked, dirs, files, loggers, pc, locals, stack>>

NextAdapter == Process

SpecAdapter == InitAdapter /\ [][NextAdapter]_vars

\* the frames, from two above the call site outwards, whose self exists and
\* is no CustomLoggerAdapter
C8_Callers ==
    {i \in 3..Len(stack) : stack[i].bound /\ ~stack[i].adapter}
C8_First == CHOOSE i \in C8_Callers : \A j \in C8_Callers : i <= j

\* C8: process returns the message prefixed with the class name of the first
\* such frame, and returns it unchanged exactly when there is no such frame.
C8_PrefixOfFirstCaller ==
    (last.op = "process") =>
        /\ last.status = "ok"
        /\ IF C8_Callers = {}
           THEN last.out = last.msg
           ELSE last.out = stack[C8_First].cls \o ": " \o last.msg

\* a frame whose self cannot be inspected: taking its truth value raises
C9_Malformed == \E i \in 3..Len(stack) : stack[i].truth = "raises"

\* C9: process never raises; whatever the stack, it returns, and when a
\* frame's self binding cannot be inspected it returns the message without
\* a prefix.
C9_NeverRaises ==
    (last.op = "process") =>
        /\ last.status = "ok"
        /\ (C9_Malformed /\ \A i \in C8_Callers : stack[i].truth = "raises") =>
               last.out = last.msg

(***************************************************************************)
(* Two unserialized get_logger calls on the same logger (SpecRace).  Each  *)
(* thread runs get_logger step by step; a step is what runs under one      *)
(* acquisition of the logging lock or touches only the thread's locals.    *)
(***************************************************************************)
Threads == {"t1", "t2"}
RaceLogger == "x"

RaceArgs ==
    [log_level : {None(IntLevel(NOTSET)), Some(IntLevel(DEBUG))},
     log_to_console : {Some(TRUE), Some(FALSE)}, log_to_file : {Some(TRUE), Some(FALSE)},
     log_format : {None("")}, date_format : {None("")}, log_file_path : {None(NoPath)}]

NoOptions ==
    [status |-> "ok", file_known |-> FALSE, log_level |-> IntLevel(NOTSET),
     log_to_console |-> FALSE, log_to_file |-> FALSE, log_format |-> "",
     date_format |-> "", log_file_path |-> NoPath, dirs |-> {}]
NoLocals == [o |-> NoOptions, copy |-> <<>>, handlers |-> <<>>, notices |-> 0]

\* the logger as an earlier, serialized call left it, or as logging creates it
InitRace ==
    /\ config = ConfigYaml
    /\ environ = Unset
    /\ marked = {<<"app">>}
    /\ \/ /\ loggers = [n \in LoggerNames |-> NewLogger(IF n = "" THEN WARNING ELSE NOTSET)]
          /\ dirs = TreeDirs
          /\ files = {ModuleFile}
       \/ \E a \in RaceArgs :
            \E out \in {get_logger(NewLogger(NOTSET), a, ConfigYaml, Unset, {<<"app">>}, TreeDirs, {ModuleFile}, "earlier")} :
               /\ loggers = [n \in LoggerNames |-> IF n = "" THEN NewLogger(WARNING) ELSE out.logger]
               /\ dirs = out.dirs
               /\ files = out.files
    /\ last = NoCall
    /\ pc = [t \in Threads |-> "call"]
    /\ locals = [t \in Threads |-> NoLocals]
    /\ stack = IdleStack

\* lines 148-164: configuration and options
Resolve(t) ==
    /\ pc[t] = "call"
    /\ \E a \in RaceArgs :
         \E o \in {resolve_options(a, config, environ, marked, dirs, files)} :
            /\ locals' = [locals EXCEPT ![t].o = o]
            /\ dirs' = o.dirs
            /\ pc' = [pc EXCEPT ![t] = IF o.status = "ok" THEN "copy" ELSE "raised"]
    /\ UNCHANGED <<config, environ, marked, files, loggers, last, stack>>

\* line 71: logger.handlers[:]
CopyHandlers(t) ==
    /\ pc[t] = "copy"
    /\ locals' = [locals EXCEPT ![t].copy = loggers[RaceLogger].handlers]
    /\ pc' = [pc EXCEPT ![t] = "remove"]
    /\ UNCHANGED <<config, environ, marked, dirs, files, loggers, last, stack>>

\* line 72: one removeHandler
RemoveOne(t) ==
    /\ pc[t] = "remove"
    /\ locals[t].copy # <<>>
    /\ loggers' = [loggers EXCEPT ![RaceLogger].handlers = removeHandler(@, Head(locals[t].copy))]
    /\ locals' = [locals EXCEPT ![t].copy = Tail(@)]
    /\ UNCHANGED <<config, environ, marked, dirs, files, last, pc, stack>>

\* line 75: logger.setLevel, once the loop is through
SetLevel(t) ==
    /\ pc[t] = "remove"
    /\ locals[t].copy = <<>>
    /\ loggers' = [loggers EXCEPT ![RaceLogger] = setLevel(@, locals[t].o.log_level)]
    /\ pc' = [pc EXCEPT ![t] = "build"]
    /\ UNCHANGED <<config, environ, marked, dirs, files, locals, last, stack>>

\* lines 80-92: the new handlers, the file opened
BuildHandlers(t) ==
    /\ pc[t] = "build"
    /\ LET o == locals[t].o
           console == ConsolePart(o.log_level, o.log_to_console, o.log_format, o.date_format, t)
       IN  IF o.log_to_file /\ ~CanOpen(o.log_file_path, dirs)
           THEN /\ pc' = [pc EXCEPT ![t] = "raised"]
                /\ UNCHANGED <<locals, files>>
           ELSE /\ locals' = [locals EXCEPT ![t].handlers =
                                IF o.log_to_file
                                THEN Append(console, FileHandler(o.log_level, o.log_format, o.date_format, o.log_file_path, t))
                                ELSE console]
                /\ files' = IF o.log_to_file THEN files \cup {Abspath(o.log_file_path)} ELSE files
                /\ pc' = [pc EXCEPT ![t] = "add"]
    /\ UNCHANGED <<config, environ, marked, dirs, loggers, last, stack>>

\* line 95: one addHandler
AddOne(t) ==
    /\ pc[t] = "add"
    /\ locals[t].handlers # <<>>
    /\ loggers' = [loggers EXCEPT ![RaceLogger].handlers = addHandler(@, Head(locals[t].handlers))]
    /\ locals' = [locals EXCEPT ![t].handlers = Tail(@)]
    /\ UNCHANGED <<config, environ, marked, dirs, files, last, pc, stack>>

\* lines 177-183: propagate, the notice, return
Finish(t) ==
    /\ pc[t] = "add"
    /\ locals[t].handlers = <<>>
    /\ loggers' = [loggers EXCEPT ![RaceLogger] = finish_get_logger(@)]
    /\ locals' = [locals EXCEPT ![t].notices = Notices(loggers[RaceLogger].level)]
    /\ pc' = [pc EXCEPT ![t] = "done"]
    /\ UNCHANGED <<config, environ, marked, dirs, files, last, stack>>

NextRace ==
    \E t \in Threads :
        \/ Resolve(t)
        \/ CopyHandlers(t)
        \/ RemoveOne(t)
        \/ SetLevel(t)
        \/ BuildHandlers(t)
        \/ AddOne(t)
        \/ Finish(t)

SpecRace == InitRace /\ [][NextRace]_vars

BothReturned == \A t \in Threads : pc[t] = "done"
RaceHandlers == loggers[RaceLogger].handlers
Kinds == {"console", "file"}

\* C7 as claimed: zero or duplicated handlers are only transient; once both
\* calls have returned no sink is attached twice.
C7_AsClaimed ==
    BothReturned => \A k \in Kinds : Cardinality(HandlersOfKind(RaceHandlers, k)) <= 1

\* the handlers thread t asked for are all attached
C7_Attached(t) ==
    /\ locals[t].o.log_to_console =>
          \E i \in 1..Len(RaceHandlers) : RaceHandlers[i].kind = "console" /\ RaceHandlers[i].by = t
    /\ locals[t].o.log_to_file =>
          \E i \in 1..Len(RaceHandlers) : RaceHandlers[i].kind = "file" /\ RaceHandlers[i].by = t

\* C7 as amended: the duplication can outlast the calls.  Once both calls
\* have returned, no handler from before them is left, every handler was
\* created by one of the two calls, each call contributes at most one
\* handler of a kind (so at most two of a kind are attached), and the
\* handlers of at least one of the calls are all attached.
C7_AfterBothReturned ==
    BothReturned =>
        /\ \A i \in 1..Len(RaceHandlers) : RaceHandlers[i].by \in Threads
        /\ \A k \in Kinds, t \in Threads :
              Cardinality({i \in HandlersOfKind(RaceHandlers, k) : RaceHandlers[i].by = t}) <= 1
        /\ \A i \in 1..Len(RaceHandlers) :
              /\ RaceHandlers[i].kind = "console" => locals[RaceHandlers[i].by].o.log_to_console
              /\ RaceHandlers[i].kind = "file" => locals[RaceHandlers[i].by].o.log_to_file
        /\ \E t \in Threads : C7_Attached(t)

\* both calls have returned and the logger, which had handlers before them,
\* is left with two console handlers
C7_Witness ==
    /\ BothReturned
    /\ Cardinality(HandlersOfKind(RaceHandlers, "console")) = 2

\* in between, a logger both calls want a handler on has none
C7_TransientlyEmpty ==
    /\ \A t \in Threads : pc[t] \in {"build", "add"} /\ locals[t].o.log_to_console
    /\ RaceHandlers = <<>>

====
